---- MODULE Spec2Model ----
(***************************************************************************)
(* Model of src/src/App.tsx: the App scene composition (two nested         *)
(* Suspense boundaries) and the AvatarLobsterAI animation controller       *)
(* (status -> clip table, the canPlayNext gate, the mixer 'finished'       *)
(* listener and the per-frame mixer update).                               *)
(*                                                                         *)
(* React is modelled by its contract: a state setter queues an update, a   *)
(* render commits the queued state and the store snapshot, and the passive *)
(* effects whose dependencies changed run in a later step with the values  *)
(* of that render.  The host's frame callback may run between any two of   *)
(* these steps.  The animation mixer is modelled by the documented         *)
(* behaviour of the calls the component makes (reset, crossFadeFrom,       *)
(* setLoop, play, update).  Time is counted in ticks of 0.1 s and clip     *)
(* time in hundredths of a tick, so that time scales keep their ratio.     *)
(***************************************************************************)
EXTENDS Integers, Sequences, FiniteSets, TLC

\* ---------------------------------------------------------------- bounds
\* length of a one-shot clip, in ticks (the clips come from FBX assets)
ClipTicks == 2
\* largest frame delta, in ticks
MaxDt == 2

\* ------------------------------------------------------- program constants
FadeOneShot == 1
FadeLoop == 2
TimeScaleOneShot == 50
TimeScaleLoop == 100
TimeScaleRun == 45
TimeScaleWalk == 45
TimeScaleJumpStart == 100
TimeScaleJumpLand == 88
TimeScaleJumpIdle == 0
TimeScaleJumpFall == 0
TimeScaleDefault == 100

\* the values of the controller's animationStatus
Statuses ==
    {"IDLE", "WALK", "RUN", "JUMP_START", "JUMP_IDLE", "JUMP_FALL", "JUMP_LAND"}

\* the clip names given to the FBX animations
clips == {"IDLE", "WALK", "JOG", "JUMP_START", "JUMP_LOOP", "JUMP_LAND"}

statusToActionMap_swapped ==
    [s \in Statuses |->
        CASE s = "IDLE" -> "IDLE"
          [] s = "WALK" -> "WALK"
          [] s = "RUN" -> "JOG"
          [] s = "JUMP_START" -> "JUMP_START"
          [] s = "JUMP_IDLE" -> "JUMP_LOOP"
          [] s = "JUMP_FALL" -> "JUMP_LAND"
          [] s = "JUMP_LAND" -> "JUMP_LAND"]

statusToActionMap ==
    [s \in Statuses |->
        CASE s = "IDLE" -> "IDLE"
          [] s = "WALK" -> "WALK"
          [] s = "RUN" -> "JOG"
          [] s = "JUMP_START" -> "JUMP_START"
          [] s = "JUMP_IDLE" -> "JUMP_LOOP"
          [] s = "JUMP_FALL" -> "JUMP_LOOP"
          [] s = "JUMP_LAND" -> "JUMP_LAND"]

\* ------------------------------------------------------------ App: assets
HdrAsset == "sky.hdr"
AvatarAssets ==
    <<"jump-start.fbx", "jump-loop.fbx", "jump-end.fbx",
      "idle.fbx", "run.fbx", "walk.fbx", "avatar.glb">>
CityAsset == "hongkong.glb"

Range(seq) == {seq[i] : i \in 1..Len(seq)}

Assets == {HdrAsset, CityAsset} \cup Range(AvatarAssets)

\* a component of the scene: its name and the assets its hooks load, in
\* the order of the hook calls
Comp(name, uses) == [kind |-> "component", name |-> name, uses |-> uses]

\* the children of the inner Suspense boundary
InnerChildren ==
    <<Comp("Gltf", <<CityAsset>>), Comp("OrbitControls", <<>>)>>

\* the fallback of the inner Suspense boundary
InnerFallback == <<Comp("Sphere", <<>>)>>

\* the children of the outer Suspense boundary other than the inner one
OuterChildren ==
    <<Comp("Environment", <<HdrAsset>>),
      Comp("AvatarLobsterAI", AvatarAssets)>>

\* BloomPipeline loads no asset through Suspense
BloomPipelineAssets == <<>>

\* the children of CanvasGPU outside every Suspense boundary of App
CanvasChildren ==
    <<Comp("BloomPipeline", BloomPipelineAssets), Comp("Fog", <<>>),
      Comp("CamRig", <<>>), Comp("ObjectWater", <<>>)>>

\* CanvasGPU renders its children into the scene
CanvasGPU(children) == children

\* a component suspends while one of its assets is not loaded
Suspends(c, done) == \E i \in 1..Len(c.uses) : c.uses[i] \notin done

\* the asset a suspended component is waiting for: that of its first hook
\* call that finds nothing in the cache
Waiting(c, done) ==
    LET pend == {i \in 1..Len(c.uses) : c.uses[i] \notin done}
    IN  IF pend = {} THEN {}
        ELSE {c.uses[CHOOSE i \in pend : \A j \in pend : i <= j]}

Names(cs) == {cs[i].name : i \in 1..Len(cs)}

AnySuspends(cs, done) == \E i \in 1..Len(cs) : Suspends(cs[i], done)

\* what a Suspense boundary commits: its children when none of them
\* suspends, its fallback otherwise
Boundary(children, fallback, done) ==
    IF AnySuspends(children, done) THEN fallback ELSE children

\* the components committed by App for a set of loaded assets.  The inner
\* boundary catches the suspension of its own children, so it never makes
\* the outer boundary fall back.
AppMounted_flat(done) ==
    CanvasGPU(
        Names(CanvasChildren)
        \cup (IF AnySuspends(OuterChildren, done) THEN {}
              ELSE Names(OuterChildren))
        \cup Names(Boundary(InnerChildren, InnerFallback, done)))

AppMounted(done) ==
    CanvasGPU(
        Names(CanvasChildren)
        \cup (IF AnySuspends(OuterChildren, done) THEN {}
              ELSE Names(OuterChildren)
                   \cup Names(Boundary(InnerChildren, InnerFallback, done))))

\* the loads in flight: every component rendered under a boundary asks for
\* the first asset it misses
Requested(done) ==
    UNION {Waiting(OuterChildren[i], done) : i \in 1..Len(OuterChildren)}
    \cup UNION {Waiting(InnerChildren[i], done) : i \in 1..Len(InnerChildren)}

\* ------------------------------------------------- AvatarLobsterAI: mixer
\* a fresh AnimationAction
NewAction ==
    [timeScale |-> TimeScaleDefault, loopOnce |-> FALSE,
     clampWhenFinished |-> FALSE, enabled |-> TRUE, paused |-> FALSE,
     time |-> 0, fadeOut |-> 0, playing |-> FALSE]

ClipLength == ClipTicks * 100

reset(a) == [a EXCEPT !.paused = FALSE, !.enabled = TRUE, !.time = 0,
                      !.fadeOut = 0]
play(a) == [a EXCEPT !.playing = TRUE]
setLoopOnce(a) == [a EXCEPT !.loopOnce = TRUE]
\* the weight of a repeating action is not tracked: it emits no event, so
\* whether it has faded out is not observable by the component
fadeOut(a, d) == IF a.loopOnce THEN [a EXCEPT !.fadeOut = d] ELSE a

\* an action that ran to the end of its single repetition
Finished(a) == a.loopOnce /\ a.time = ClipLength

\* the action emits 'finished' in a mixer update of dt ticks
Emits(a, dt) ==
    /\ a.playing /\ a.enabled /\ ~a.paused /\ a.loopOnce
    /\ a.timeScale > 0
    /\ a.time + dt * a.timeScale >= ClipLength

\* one action after a mixer update of dt ticks: the clip time advances
\* first (a finished one-shot is paused when clamped, disabled otherwise),
\* then the fade-out weight, which disables the action when it reaches 0
UpdateAction(a, dt) ==
    IF ~a.playing THEN a
    ELSE
    LET runs == a.enabled /\ ~a.paused /\ a.loopOnce /\ a.timeScale > 0
        t == IF runs
             THEN IF a.time + dt * a.timeScale >= ClipLength
                  THEN ClipLength ELSE a.time + dt * a.timeScale
             ELSE a.time
        ends == runs /\ t = ClipLength
        f == IF a.fadeOut > dt THEN a.fadeOut - dt ELSE 0
        fadedOut == a.fadeOut > 0 /\ f = 0
    IN  [a EXCEPT !.time = t,
                  !.paused = a.paused \/ (ends /\ a.clampWhenFinished),
                  !.enabled = a.enabled /\ ~(ends /\ ~a.clampWhenFinished)
                              /\ ~fadedOut,
                  !.fadeOut = f]

\* the projection CamRig gives the camera
CamFov == 50
CamFar == 15000
CamNear == 5

\* the range of the fog
FogNear == 750
FogFar == 1500

\* camera and scene objects the three store may hold, one after the other
MaxCameras == 2
MaxScenes == 2

\* runs of one effect on one object that are counted
MaxRuns == 2

\* ------------------------------------------------------------------ state
VARIABLES
    loaded,             \* assets whose load has completed
    mounted,            \* components committed by App
    ecctrlActionName,   \* the store's animationStatus, as last rendered
    canPlayNext,        \* the gate of the last render
    pendingCanPlayNext, \* queued setCanPlayNext value: <<>> or <<v>>
    effectsPending,     \* effects the last commit left to run
    prevActionNameRef,  \* prevActionNameRef.current
    actions,            \* clip name -> AnimationAction
    listeners,          \* 'finished' listeners: the gate each captured
    last,               \* what the last step did
    stayed,             \* the status stayed in the wait set of the current
                        \* one-shot clip ever since the clip was started
    released,           \* status for which the last effect run released
                        \* the gate, "none" when it released nothing
    api,                \* ObjectWater: the api state of the last render
    pendingApi,         \* ObjectWater: queued setAPI value: <<>> or <<v>>
    water,              \* ObjectWater: the WaterMesh and its waterNormals
    waterEffect,        \* ObjectWater: "pending" or "ran"
    display,            \* ObjectWater: what the last render returned
    camera,             \* the camera object of the three store
    cameras,            \* camera object -> its fields
    camRigDeps,         \* CamRig: dependencies of the last effect run
    camRigRuns,         \* camera object -> runs of the CamRig effect on it
    scene,              \* the scene object of the three store
    scenes,             \* scene object -> its fields
    fogDeps,            \* Fog: dependencies of the last effect run
    fogRuns             \* scene object -> runs of the Fog effect on it

avatarVars == <<loaded, mounted, ecctrlActionName, canPlayNext,
                pendingCanPlayNext, effectsPending, prevActionNameRef,
                actions, listeners, last, stayed, released>>

waterVars == <<api, pendingApi, water, waterEffect, display>>

rigVars == <<camera, cameras, camRigDeps, camRigRuns, scene, scenes,
             fogDeps, fogRuns>>

vars == <<avatarVars, waterVars, rigVars>>

NoOp == [op |-> "other", started |-> "none", from |-> "none",
         finished |-> {}, after |-> "none"]

AvatarMounted == "AvatarLobsterAI" \in mounted

\* the statuses for which the controller keeps waiting for a one-shot clip
WaitSet(clip) ==
    IF clip = "JUMP_START" THEN {"JUMP_START", "JUMP_IDLE"}
    ELSE IF clip = "JUMP_LAND" THEN {"IDLE", "JUMP_LAND"}
    ELSE {}

\* ------------------------------------------------------------ ObjectWater
\* the texture TextureLoader.load returns at once, before the image arrives
NewTexture ==
    [status |-> "loading", wrapS |-> "ClampToEdgeWrapping",
     wrapT |-> "ClampToEdgeWrapping"]

\* before the mount effect there is neither a mesh nor a texture
NoWater ==
    [created |-> FALSE,
     waterNormals |-> [NewTexture EXCEPT !.status = "none"]]

\* the load succeeds: the loader calls the onLoad callback of the component
onLoad(tex) ==
    [tex EXCEPT !.status = "loaded", !.wrapS = "RepeatWrapping",
                !.wrapT = "RepeatWrapping"]

\* the load fails: the component passed no onError callback
onError(tex) == [tex EXCEPT !.status = "failed"]

\* useState({}): no func, no display
EmptyApi == [func |-> FALSE, display |-> "none"]

PublishedApi_deferred == EmptyApi

\* the value the mount effect passes to setAPI
PublishedApi == [func |-> TRUE, display |-> "water"]

WaterInit ==
    /\ api = EmptyApi
    /\ pendingApi = <<>>
    /\ water = NoWater
    /\ waterEffect = "pending"
    /\ display = "none"

\* ------------------------------------------------------------ CamRig, Fog
\* the sixteen elements of the matrix of CamRig, in thousandths
RigMatrix ==
    <<984, 0, 178, 0,
      60, 942, -329, 0,
      -168, 335, 927, 0,
      -136600, 272607, 755452, 1000>>

ISqrt(n) == CHOOSE r \in 0..2000 : r * r <= n /\ n < (r + 1) * (r + 1)

\* length of the column of m that starts at element i
ColumnLength(m, i) ==
    ISqrt(m[i] * m[i] + m[i + 1] * m[i + 1] + m[i + 2] * m[i + 2])

\* Matrix4.decompose: the translation, the rotation with the scale divided
\* out (kept as its nine matrix elements) and the scale, in thousandths
decompose(m) ==
    LET sx == ColumnLength(m, 1)
        sy == ColumnLength(m, 5)
        sz == ColumnLength(m, 9)
    IN  [position |-> <<m[13], m[14], m[15]>>,
         quaternion |-> <<(m[1] * 1000) \div sx, (m[2] * 1000) \div sx,
                          (m[3] * 1000) \div sx, (m[5] * 1000) \div sy,
                          (m[6] * 1000) \div sy, (m[7] * 1000) \div sy,
                          (m[9] * 1000) \div sz, (m[10] * 1000) \div sz,
                          (m[11] * 1000) \div sz>>,
         scale |-> <<sx, sy, sz>>]

\* camera.updateProjectionMatrix(): the projection follows fov, near, far
updateProjectionMatrix(c) ==
    [c EXCEPT !.projection = <<c.fov, c.near, c.far>>]

\* a camera CamRig has not configured: at the origin side of the scene,
\* unrotated, with the projection of the canvas (near 0.1 kept as 1)
DefaultCamera ==
    updateProjectionMatrix(
        [position |-> <<0, 0, 5000>>,
         quaternion |-> <<1000, 0, 0, 0, 1000, 0, 0, 0, 1000>>,
         scale |-> <<1000, 1000, 1000>>,
         fov |-> 75, near |-> 1, far |-> 1000,
         projection |-> <<0, 0, 0>>])

\* what m4.decompose writes into the position, quaternion and scale
RigPose == decompose(RigMatrix)

\* the body of the CamRig effect on camera c
CamRigConfigure(c) ==
    updateProjectionMatrix(
        [c EXCEPT !.position = RigPose.position,
                  !.quaternion = RigPose.quaternion,
                  !.scale = RigPose.scale,
                  !.fov = CamFov, !.far = CamFar, !.near = CamNear])

\* the positions OrbitControls moves the camera to
OrbitPositions == {<<0, 1000000, 0>>, <<500000, 500000, 500000>>}

\* OrbitControls.update: the camera is put at p and turned to the target
OrbitUpdate(c, p) ==
    [c EXCEPT !.position = p,
              !.quaternion = <<1000, 0, 0, 0, 0, -1000, 0, 1000, 0>>]

\* a scene Fog has not configured
DefaultScene ==
    [fogNode |-> [color |-> "none", near |-> 0, far |-> 0],
     backgroundNode |-> "none"]

SkyColor == "#6df3ff"

\* the body of the Fog effect on scene sc
FogConfigure(sc) ==
    [sc EXCEPT !.fogNode = [color |-> SkyColor, near |-> FogNear,
                            far |-> FogFar],
               !.backgroundNode = SkyColor]

DepsChanged_always(prevDeps, deps) == TRUE

\* React runs an effect after a render whose dependencies differ from the
\* ones of its last run
DepsChanged(prevDeps, deps) == prevDeps # deps

CameraIds == 1..MaxCameras

SceneIds == 1..MaxScenes

RigInit ==
    /\ camera = 1
    /\ cameras = [id \in CameraIds |-> DefaultCamera]
    /\ camRigDeps = <<>>
    /\ camRigRuns = [id \in CameraIds |-> 0]
    /\ scene = 1
    /\ scenes = [id \in SceneIds |-> DefaultScene]
    /\ fogDeps = <<>>
    /\ fogRuns = [id \in SceneIds |-> 0]

Init ==
    /\ loaded = {}
    /\ mounted = AppMounted({})
    /\ ecctrlActionName = "IDLE"
    /\ canPlayNext = TRUE
    /\ pendingCanPlayNext = <<>>
    /\ effectsPending = "none"
    /\ prevActionNameRef = "IDLE"
    /\ actions = [c \in clips |-> NewAction]
    /\ listeners = <<>>
    /\ last = NoOp
    /\ stayed = FALSE
    /\ released = "none"
    /\ WaterInit
    /\ RigInit


\* --------------------------------------------- AvatarLobsterAI: the effects
setCanPlayNext(v) == <<v>>

ShouldTransition_noCompare(nextActionName, prevActionName, gate) == gate

ShouldTransition_idleRefade(nextActionName, prevActionName, gate) ==
    gate /\ (nextActionName # prevActionName \/ nextActionName = "IDLE")

ShouldTransition_loopRestarts(nextActionName, prevActionName, gate) ==
    gate /\ (nextActionName # prevActionName \/ nextActionName = "JUMP_LOOP")

\* the condition under which the status effect starts the next clip
ShouldTransition(nextActionName, prevActionName, gate) ==
    nextActionName # prevActionName /\ gate

IsOneShot_all(nextActionName) == TRUE

IsOneShot_withLoop(nextActionName) ==
    nextActionName \in {"JUMP_START", "JUMP_LAND", "JUMP_LOOP"}

\* the clips started as one-shot clips
IsOneShot(nextActionName) ==
    \/ nextActionName = statusToActionMap["JUMP_START"]
    \/ nextActionName = statusToActionMap["JUMP_LAND"]

ReleaseJumpStart_never(gate, prevActionName, s) == FALSE

\* jump start not finished and the status is neither jump start nor
\* jump idle: allow the next action
ReleaseJumpStart(gate, prevActionName, s) ==
    /\ ~gate
    /\ prevActionName = statusToActionMap["JUMP_START"]
    /\ s # "JUMP_IDLE"
    /\ s # "JUMP_START"

ReleaseJumpLand_never(gate, prevActionName, s) == FALSE

\* jump land not finished and the status is neither idle nor jump land:
\* allow the next action
ReleaseJumpLand(gate, prevActionName, s) ==
    /\ ~gate
    /\ prevActionName = statusToActionMap["JUMP_LAND"]
    /\ s # "IDLE"
    /\ s # "JUMP_LAND"

OverrideTimeScale_noJump(s, ts) ==
    CASE s = "RUN" -> TimeScaleRun
      [] s = "WALK" -> TimeScaleWalk
      [] s = "JUMP_IDLE" -> TimeScaleJumpIdle
      [] s = "JUMP_FALL" -> TimeScaleJumpFall
      [] OTHER -> ts

\* the time scale the end of the status effect gives the action of status s
OverrideTimeScale(s, ts) ==
    CASE s = "RUN" -> TimeScaleRun
      [] s = "WALK" -> TimeScaleWalk
      [] s = "JUMP_START" -> TimeScaleJumpStart
      [] s = "JUMP_LAND" -> TimeScaleJumpLand
      [] s = "JUMP_IDLE" -> TimeScaleJumpIdle
      [] s = "JUMP_FALL" -> TimeScaleJumpFall
      [] OTHER -> ts

RecordedActionName_stale(trans, nextActionName, prevActionName) ==
    prevActionName

\* prevActionNameRef.current after the transition branch
RecordedActionName(trans, nextActionName, prevActionName) ==
    IF trans THEN nextActionName ELSE prevActionName

\* nextAction.reset().crossFadeFrom(actions[prevActionName], d): the
\* previous action fades out over d, the next one fades in
crossFadeFrom(acts, nextActionName, prevActionName, d) ==
    LET out == [acts EXCEPT ![prevActionName] = fadeOut(@, d)]
    IN  [out EXCEPT ![nextActionName].fadeOut = 0]

\* the transition branch of the status effect
StartAction(acts, nextActionName, prevActionName) ==
    IF IsOneShot(nextActionName)
    THEN LET a1 == [acts EXCEPT
                      ![nextActionName] =
                          reset([@ EXCEPT !.timeScale = TimeScaleOneShot])]
             a2 == crossFadeFrom(a1, nextActionName, prevActionName,
                                 FadeOneShot)
         IN  [a2 EXCEPT ![nextActionName] =
                  [play(setLoopOnce(@)) EXCEPT !.clampWhenFinished = TRUE]]
    ELSE LET a1 == [acts EXCEPT
                      ![nextActionName] =
                          reset([@ EXCEPT !.timeScale = TimeScaleLoop])]
             a2 == crossFadeFrom(a1, nextActionName, prevActionName,
                                 FadeLoop)
         IN  [a2 EXCEPT ![nextActionName] = play(@)]

ActionNameOf_fallback(s) ==
    IF s \in DOMAIN statusToActionMap THEN statusToActionMap[s] ELSE "IDLE"

\* statusToActionMap[ecctrlActionName]: undefined for a status that is not
\* a key of the table
ActionNameOf(s) ==
    IF s \in DOMAIN statusToActionMap THEN statusToActionMap[s]
    ELSE "undefined"

\* the effect keyed on [ecctrlActionName, canPlayNext], run on the actions
\* acts with the values of the last render
StatusEffect(acts) ==
    LET nextActionName == ActionNameOf(ecctrlActionName)
        prevActionName == prevActionNameRef
        hasAction == nextActionName \in DOMAIN acts
        trans == ShouldTransition(nextActionName, prevActionName, canPlayNext)
        relStart == ReleaseJumpStart(canPlayNext, prevActionName,
                                     ecctrlActionName)
        relLand == ReleaseJumpLand(canPlayNext, prevActionName,
                                   ecctrlActionName)
        a1 == IF trans THEN StartAction(acts, nextActionName, prevActionName)
              ELSE acts
    IN  IF ~hasAction
        THEN /\ actions' = acts
             /\ UNCHANGED <<prevActionNameRef, pendingCanPlayNext, stayed>>
             /\ released' = "none"
             /\ last' = [NoOp EXCEPT !.op = "effect", !.after = released]
        ELSE /\ actions' =
                    [a1 EXCEPT ![nextActionName].timeScale =
                                   OverrideTimeScale(ecctrlActionName, @)]
             /\ prevActionNameRef' =
                    RecordedActionName(trans, nextActionName, prevActionName)
             /\ pendingCanPlayNext' =
                    IF trans THEN setCanPlayNext(~IsOneShot(nextActionName))
                    ELSE IF relStart \/ relLand THEN setCanPlayNext(TRUE)
                    ELSE pendingCanPlayNext
             /\ stayed' =
                    IF trans
                    THEN IsOneShot(nextActionName)
                         /\ ecctrlActionName \in WaitSet(nextActionName)
                    ELSE stayed
             /\ released' =
                    IF relStart \/ relLand THEN ecctrlActionName ELSE "none"
             /\ last' = [op |-> "effect",
                         started |-> IF trans THEN nextActionName ELSE "none",
                         from |-> IF trans THEN prevActionName ELSE "none",
                         finished |-> {}, after |-> released]

\* the 'finished' listener: TRUE when it calls setCanPlayNext(true).  The
\* gate it tests is the one of the render that registered it.
onFinished(captured, clipName) ==
    /\ ~captured
    /\ \/ clipName = statusToActionMap["JUMP_START"]
       \/ clipName = statusToActionMap["JUMP_LAND"]

RemoveLast_keep(ls) == ls

\* mixer.removeEventListener with the listener the effect added
RemoveLast(ls) == IF ls = <<>> THEN ls ELSE SubSeq(ls, 1, Len(ls) - 1)

\* ---------------------------------------------------------------- actions
\* an asset finishes loading and React retries the suspended boundaries; the
\* commit that first shows AvatarLobsterAI leaves its mount effects to run
AssetLoaded(a) ==
    /\ a \in Requested(loaded)
    /\ loaded' = loaded \cup {a}
    /\ mounted' = AppMounted(loaded')
    /\ effectsPending' =
           IF "AvatarLobsterAI" \in mounted' /\ ~AvatarMounted
           THEN "mount" ELSE effectsPending
    /\ last' = NoOp
    /\ UNCHANGED <<ecctrlActionName, canPlayNext, pendingCanPlayNext,
                   prevActionNameRef, actions, listeners, stayed, released>>
    /\ UNCHANGED <<waterVars, rigVars>>

\* the gate a render commits: the queued value when there is one
RenderedGate ==
    IF pendingCanPlayNext = <<>> THEN canPlayNext ELSE pendingCanPlayNext[1]

\* the effects a commit leaves to run, from the dependencies that changed
EffectsOf(statusChanged) ==
    IF RenderedGate # canPlayNext THEN "gate"
    ELSE IF statusChanged THEN "status" ELSE "none"

\* the controller writes a new status into its store and the subscribed
\* component re-renders with it (React runs the effects of the previous
\* commit before it renders again); before the avatar is mounted only the
\* store changes
SetStatus(s) ==
    /\ s # ecctrlActionName
    /\ effectsPending = "none"
    /\ ecctrlActionName' = s
    /\ stayed' = (stayed /\ s \in WaitSet(prevActionNameRef))
    /\ last' = NoOp
    /\ IF AvatarMounted
       THEN /\ canPlayNext' = RenderedGate
            /\ pendingCanPlayNext' = <<>>
            /\ effectsPending' = EffectsOf(TRUE)
       ELSE UNCHANGED <<canPlayNext, pendingCanPlayNext, effectsPending>>
    /\ UNCHANGED <<loaded, mounted, prevActionNameRef, actions, listeners,
                   released>>
    /\ UNCHANGED <<waterVars, rigVars>>

\* AvatarLobsterAI re-renders for a queued setCanPlayNext: the commit
\* leaves the effects whose dependencies changed to run
Render ==
    /\ AvatarMounted
    /\ effectsPending = "none"
    /\ pendingCanPlayNext # <<>>
    /\ canPlayNext' = RenderedGate
    /\ pendingCanPlayNext' = <<>>
    /\ effectsPending' = EffectsOf(FALSE)
    /\ last' = NoOp
    /\ UNCHANGED <<loaded, mounted, ecctrlActionName, prevActionNameRef,
                   actions, listeners, stayed, released>>
    /\ UNCHANGED <<waterVars, rigVars>>

\* the passive effects of the last commit run: on mount the IDLE clip is
\* played, the status effect runs and the listener is added; afterwards the
\* status effect runs, and when the gate changed the listener is replaced
FlushEffects ==
    /\ AvatarMounted
    /\ effectsPending # "none"
    /\ effectsPending' = "none"
    /\ StatusEffect(IF effectsPending = "mount"
                    THEN [actions EXCEPT !["IDLE"] = play(@)]
                    ELSE actions)
    /\ listeners' =
           CASE effectsPending = "mount" -> Append(listeners, canPlayNext)
             [] effectsPending = "gate" ->
                    Append(RemoveLast(listeners), canPlayNext)
             [] OTHER -> listeners
    /\ UNCHANGED <<loaded, mounted, ecctrlActionName, canPlayNext>>
    /\ UNCHANGED <<waterVars, rigVars>>

\* useFrame: mixer.update(dt); every 'finished' event goes to the listeners
Frame(dt) ==
    /\ AvatarMounted
    /\ LET fin == {c \in clips : Emits(actions[c], dt)}
           calls == \E i \in 1..Len(listeners) :
                        \E c \in fin : onFinished(listeners[i], c)
       IN  /\ actions' = [c \in clips |-> UpdateAction(actions[c], dt)]
           /\ pendingCanPlayNext' =
                  IF calls THEN setCanPlayNext(TRUE) ELSE pendingCanPlayNext
           /\ last' = [NoOp EXCEPT !.op = "frame", !.finished = fin]
    /\ UNCHANGED <<loaded, mounted, ecctrlActionName, canPlayNext,
                   effectsPending, prevActionNameRef, listeners, stayed,
                   released>>
    /\ UNCHANGED <<waterVars, rigVars>>

\* AvatarLobsterAI is unmounted with the App, after the assets have loaded:
\* React runs the cleanup of the effects that have run
Unmount ==
    /\ AvatarMounted
    /\ loaded = Assets
    /\ mounted' = {}
    /\ listeners' = RemoveLast(listeners)
    /\ effectsPending' = "none"
    /\ pendingCanPlayNext' = <<>>
    /\ last' = NoOp
    /\ UNCHANGED <<loaded, ecctrlActionName, canPlayNext, prevActionNameRef,
                   actions, stayed, released>>
    /\ UNCHANGED <<waterVars, rigVars>>

\* ObjectWater's mount effect: the mesh is made, the load of its normals
\* texture is started and the mesh is handed to setAPI
WaterMountEffect ==
    /\ waterEffect = "pending"
    /\ waterEffect' = "ran"
    /\ water' = [created |-> TRUE, waterNormals |-> NewTexture]
    /\ pendingApi' = <<PublishedApi>>
    /\ UNCHANGED <<api, display>>
    /\ UNCHANGED <<avatarVars, rigVars>>

\* ObjectWater re-renders for the queued setAPI and returns api.display
WaterRender ==
    /\ pendingApi # <<>>
    /\ api' = pendingApi[1]
    /\ pendingApi' = <<>>
    /\ display' = api'.display
    /\ UNCHANGED <<water, waterEffect>>
    /\ UNCHANGED <<avatarVars, rigVars>>

\* the image of the normals texture arrives
TextureLoaded ==
    /\ water.waterNormals.status = "loading"
    /\ water' = [water EXCEPT !.waterNormals = onLoad(@)]
    /\ UNCHANGED <<api, pendingApi, waterEffect, display>>
    /\ UNCHANGED <<avatarVars, rigVars>>

\* the load of the normals texture fails
TextureFailed ==
    /\ water.waterNormals.status = "loading"
    /\ water' = [water EXCEPT !.waterNormals = onError(@)]
    /\ UNCHANGED <<api, pendingApi, waterEffect, display>>
    /\ UNCHANGED <<avatarVars, rigVars>>

\* the three store gets another camera object; CamRig re-renders with it
SetCamera ==
    /\ camera < MaxCameras
    /\ ~DepsChanged(camRigDeps, <<camera>>)
    /\ camera' = camera + 1
    /\ UNCHANGED <<cameras, camRigDeps, camRigRuns, scene, scenes, fogDeps,
                   fogRuns>>
    /\ UNCHANGED <<avatarVars, waterVars>>

\* CamRig has rendered (on mount, for a new camera, or with its parent) and
\* React runs its effect if the dependencies [camera] changed
CamRigEffect ==
    /\ DepsChanged(camRigDeps, <<camera>>)
    /\ camRigRuns[camera] < MaxRuns
    /\ cameras' = [cameras EXCEPT ![camera] = CamRigConfigure(@)]
    /\ camRigDeps' = <<camera>>
    /\ camRigRuns' = [camRigRuns EXCEPT ![camera] = @ + 1]
    /\ UNCHANGED <<camera, scene, scenes, fogDeps, fogRuns>>
    /\ UNCHANGED <<avatarVars, waterVars>>

\* the three store gets another scene object; Fog re-renders with it
SetScene ==
    /\ scene < MaxScenes
    /\ ~DepsChanged(fogDeps, <<scene>>)
    /\ scene' = scene + 1
    /\ UNCHANGED <<camera, cameras, camRigDeps, camRigRuns, scenes, fogDeps,
                   fogRuns>>
    /\ UNCHANGED <<avatarVars, waterVars>>

\* Fog has rendered and React runs its effect if the dependencies [scene]
\* changed
FogEffect ==
    /\ DepsChanged(fogDeps, <<scene>>)
    /\ fogRuns[scene] < MaxRuns
    /\ scenes' = [scenes EXCEPT ![scene] = FogConfigure(@)]
    /\ fogDeps' = <<scene>>
    /\ fogRuns' = [fogRuns EXCEPT ![scene] = @ + 1]
    /\ UNCHANGED <<camera, cameras, camRigDeps, camRigRuns, scene>>
    /\ UNCHANGED <<avatarVars, waterVars>>

\* a frame of the scene: ObjectWater calls api.func, which does nothing, and
\* OrbitControls, once mounted, moves the camera of the store
SceneFrame(p) ==
    /\ "OrbitControls" \in mounted
    /\ cameras' = [cameras EXCEPT ![camera] = OrbitUpdate(@, p)]
    /\ UNCHANGED <<camera, camRigDeps, camRigRuns, scene, scenes, fogDeps,
                   fogRuns>>
    /\ UNCHANGED <<avatarVars, waterVars>>

Next ==
    \/ \E a \in Assets : AssetLoaded(a)
    \/ \E s \in Statuses : SetStatus(s)
    \/ Render
    \/ FlushEffects
    \/ \E dt \in 1..MaxDt : Frame(dt)

Spec == Init /\ [][Next]_vars

\* the frame loop, the renders and the effects keep running
FairSpec ==
    /\ Spec
    /\ WF_vars(\E dt \in 1..MaxDt : Frame(dt))
    /\ WF_vars(Render)
    /\ WF_vars(FlushEffects)

\* a status the mapping table has no key for
UnmappedStatus == "UNMAPPED"

\* the avatar with any status in the store and with its unmount
LifecycleNext ==
    \/ \E a \in Assets : AssetLoaded(a)
    \/ \E s \in Statuses \cup {UnmappedStatus} : SetStatus(s)
    \/ Render
    \/ FlushEffects
    \/ \E dt \in 1..MaxDt : Frame(dt)
    \/ Unmount

LifecycleSpec == Init /\ [][LifecycleNext]_vars

\* the scene components alone: the assets load, ObjectWater, CamRig and Fog
\* run, the frames move the camera, the avatar has not acted yet
SceneNext ==
    \/ \E a \in Assets : AssetLoaded(a)
    \/ WaterMountEffect
    \/ WaterRender
    \/ TextureLoaded
    \/ TextureFailed
    \/ SetCamera
    \/ CamRigEffect
    \/ SetScene
    \/ FogEffect
    \/ \E p \in OrbitPositions : SceneFrame(p)

SceneSpec == Init /\ [][SceneNext]_vars

TypeOK ==
    /\ loaded \subseteq Assets
    /\ ecctrlActionName \in Statuses
    /\ canPlayNext \in BOOLEAN
    /\ prevActionNameRef \in clips
    /\ Len(listeners) <= 1


\* ------------------------------------------------------------ properties
OneShotClips == {"JUMP_START", "JUMP_LAND"}

\* the step is a run of the status effect
EffectRuns == last'.op = "effect"

\* the action was reset and is playing from its start
Restarted(a) == a.playing /\ a.enabled /\ ~a.paused /\ a.time = 0

\* the status -> clip table as the claim states it
C1_Table ==
    [s \in Statuses |->
        CASE s = "IDLE" -> "IDLE"
          [] s = "WALK" -> "WALK"
          [] s = "RUN" -> "JOG"
          [] s = "JUMP_START" -> "JUMP_START"
          [] s = "JUMP_IDLE" -> "JUMP_LOOP"
          [] s = "JUMP_FALL" -> "JUMP_LOOP"
          [] s = "JUMP_LAND" -> "JUMP_LAND"]

\* C1: whenever the status effect runs with status s, the gate open and
\* the clip the table gives for s different from the current clip, the clip
\* that is reset, played and recorded in prevActionNameRef is exactly the
\* clip of the table, cross-faded from the clip that was current.
C1_StatusMapsToClip ==
    [][(/\ EffectRuns
        /\ canPlayNext
        /\ C1_Table[ecctrlActionName] # prevActionNameRef)
       => (/\ last'.started = C1_Table[ecctrlActionName]
           /\ last'.from = prevActionNameRef
           /\ prevActionNameRef' = C1_Table[ecctrlActionName]
           /\ Restarted(actions'[C1_Table[ecctrlActionName]]))]_vars

\* C1 witness: the effect ran for JUMP_FALL with the gate open and started
\* JUMP_LOOP
C1_Witness ==
    /\ last.op = "effect"
    /\ canPlayNext
    /\ ecctrlActionName = "JUMP_FALL"
    /\ last.started = "JUMP_LOOP"
    /\ prevActionNameRef = "JUMP_LOOP"

\* C2: every reset-and-play of a one-shot clip happens in a state where the
\* current clip is a different clip; and when the effect runs with the gate
\* open while the status maps to the one-shot clip that is current (the gate
\* reopened after the clip finished), nothing is started and the clip's
\* action is not reset.
C2_OneShotNotRetriggered ==
    [][/\ (EffectRuns /\ last'.started \in OneShotClips)
          => prevActionNameRef # last'.started
       /\ (/\ EffectRuns
           /\ canPlayNext
           /\ prevActionNameRef \in OneShotClips
           /\ C1_Table[ecctrlActionName] = prevActionNameRef)
          => (/\ last'.started = "none"
              /\ prevActionNameRef' = prevActionNameRef
              /\ actions'[prevActionNameRef].time
                     = actions[prevActionNameRef].time
              /\ actions'[prevActionNameRef].paused
                     = actions[prevActionNameRef].paused)]_vars

\* C2 witness: JUMP_START finished, the gate reopened, the effect ran again
\* with the status still JUMP_START and started nothing
C2_Witness ==
    /\ last.op = "effect"
    /\ last.started = "none"
    /\ canPlayNext
    /\ ecctrlActionName = "JUMP_START"
    /\ prevActionNameRef = "JUMP_START"
    /\ Finished(actions["JUMP_START"])
    /\ actions["JUMP_START"].paused


\* C3: after JUMP_START has been started, for as long as the status stays
\* within {JUMP_START, JUMP_IDLE}, no effect run starts another clip or
\* changes the current clip unless the JUMP_START clip has finished.
C3_WaitsForJumpStart ==
    [][(/\ EffectRuns
        /\ prevActionNameRef = "JUMP_START"
        /\ stayed
        /\ ecctrlActionName \in {"JUMP_START", "JUMP_IDLE"}
        /\ ~Finished(actions["JUMP_START"]))
       => (/\ last'.started = "none"
           /\ prevActionNameRef' = "JUMP_START")]_vars

\* C4: after JUMP_LAND has been started, for as long as the status stays
\* within {IDLE, JUMP_LAND}, no effect run starts another clip or changes
\* the current clip unless the JUMP_LAND clip has finished.
C4_WaitsForJumpLand ==
    [][(/\ EffectRuns
        /\ prevActionNameRef = "JUMP_LAND"
        /\ stayed
        /\ ecctrlActionName \in {"IDLE", "JUMP_LAND"}
        /\ ~Finished(actions["JUMP_LAND"]))
       => (/\ last'.started = "none"
           /\ prevActionNameRef' = "JUMP_LAND")]_vars

\* C5: when the effect runs with the gate closed, JUMP_START current and a
\* status other than JUMP_START and JUMP_IDLE, it reopens the gate without
\* starting a clip; the following effect run has the gate open and makes the
\* clip of the status rendered with it the current clip, which is the clip
\* of the status that released the gate when the status is still that one,
\* cross-faded from JUMP_START.
C5_JumpStartRelease ==
    [][/\ (/\ EffectRuns
           /\ ~canPlayNext
           /\ prevActionNameRef = "JUMP_START"
           /\ ecctrlActionName \notin {"JUMP_START", "JUMP_IDLE"})
          => (/\ pendingCanPlayNext' = <<TRUE>>
              /\ released' = ecctrlActionName
              /\ last'.started = "none"
              /\ prevActionNameRef' = "JUMP_START")
       /\ (/\ EffectRuns
           /\ released # "none"
           /\ prevActionNameRef = "JUMP_START")
          => (/\ canPlayNext
              /\ prevActionNameRef' = C1_Table[ecctrlActionName]
              /\ ecctrlActionName = released
                 => (/\ last'.started = C1_Table[released]
                     /\ last'.from = "JUMP_START"))]_vars

\* C5 witness: the gate was released from JUMP_START by the status RUN and
\* the following effect run started JOG while JUMP_START had not finished
C5_Witness ==
    /\ last.op = "effect"
    /\ last.after = "RUN"
    /\ last.from = "JUMP_START"
    /\ last.started = "JOG"
    /\ prevActionNameRef = "JOG"
    /\ ~Finished(actions["JUMP_START"])

\* C6: when the effect runs with the gate closed, JUMP_LAND current and a
\* status other than IDLE and JUMP_LAND, it reopens the gate without
\* starting a clip; the following effect run has the gate open and makes the
\* clip of the status rendered with it the current clip, which is the clip
\* of the status that released the gate when the status is still that one,
\* cross-faded from JUMP_LAND.
C6_JumpLandRelease ==
    [][/\ (/\ EffectRuns
           /\ ~canPlayNext
           /\ prevActionNameRef = "JUMP_LAND"
           /\ ecctrlActionName \notin {"IDLE", "JUMP_LAND"})
          => (/\ pendingCanPlayNext' = <<TRUE>>
              /\ released' = ecctrlActionName
              /\ last'.started = "none"
              /\ prevActionNameRef' = "JUMP_LAND")
       /\ (/\ EffectRuns
           /\ released # "none"
           /\ prevActionNameRef = "JUMP_LAND")
          => (/\ canPlayNext
              /\ prevActionNameRef' = C1_Table[ecctrlActionName]
              /\ ecctrlActionName = released
                 => (/\ last'.started = C1_Table[released]
                     /\ last'.from = "JUMP_LAND"))]_vars

\* C6 witness: the gate was released from JUMP_LAND by the status WALK and
\* the following effect run started WALK while JUMP_LAND had not finished
C6_Witness ==
    /\ last.op = "effect"
    /\ last.after = "WALK"
    /\ last.from = "JUMP_LAND"
    /\ last.started = "WALK"
    /\ prevActionNameRef = "WALK"
    /\ ~Finished(actions["JUMP_LAND"])

\* the step is a mixer update in which the gating one-shot clip finishes
GatingClipFinishes ==
    /\ last'.op = "frame"
    /\ ~canPlayNext
    /\ prevActionNameRef \in OneShotClips
    /\ prevActionNameRef \in last'.finished

\* C7: when the gating one-shot clip finishes while the gate is closed the
\* 'finished' handler reopens the gate, and the effect run that follows the
\* reopening starts the clip of the status held then, cross-fading from the
\* finished one-shot clip.
C7_FinishReopensAndRestarts ==
    [][/\ GatingClipFinishes => pendingCanPlayNext' = <<TRUE>>
       /\ (/\ EffectRuns
           /\ canPlayNext
           /\ prevActionNameRef \in OneShotClips
           /\ Finished(actions[prevActionNameRef])
           /\ C1_Table[ecctrlActionName] # prevActionNameRef)
          => (/\ last'.started = C1_Table[ecctrlActionName]
              /\ last'.from = prevActionNameRef)]_vars

\* C8: every 'finished' event of JUMP_START or JUMP_LAND that the mixer
\* update delivers while the gate is closed reopens the gate.
C8_NoFinishedEventDropped ==
    (/\ last.op = "frame"
     /\ last.finished \cap OneShotClips # {}
     /\ ~canPlayNext)
    => pendingCanPlayNext = <<TRUE>>

\* C9: under the fairness of the frame loop, the renders and the effects, a
\* closed gate is eventually open again.
C9_GateEventuallyReopens == (~canPlayNext) ~> canPlayNext

\* the assets of the outer Suspense boundary, as the claim lists them
C10_OuterAssets ==
    {"sky.hdr", "avatar.glb", "jump-start.fbx", "jump-loop.fbx",
     "jump-end.fbx", "idle.fbx", "run.fbx", "walk.fbx"}

\* C10: the placeholder sphere is mounted exactly when every asset of the
\* outer boundary has loaded and the city GLB has not; the city model and
\* OrbitControls are mounted only when the city GLB has loaded and never
\* together with the placeholder; BloomPipeline, Fog, CamRig and ObjectWater
\* are mounted in every loading state.
C10_SuspenseGating ==
    /\ "Sphere" \in mounted
       <=> (C10_OuterAssets \subseteq loaded /\ "hongkong.glb" \notin loaded)
    /\ \A c \in {"Gltf", "OrbitControls"} :
           c \in mounted
           => ("hongkong.glb" \in loaded /\ "Sphere" \notin mounted)
    /\ {"BloomPipeline", "Fog", "CamRig", "ObjectWater"} \subseteq mounted

\* C10 witness: the placeholder is shown next to the mounted avatar while
\* the city GLB is still loading
C10_Witness ==
    /\ "Sphere" \in mounted
    /\ "AvatarLobsterAI" \in mounted
    /\ "hongkong.glb" \notin loaded
    /\ "Gltf" \notin mounted

\* C11: the mount effect of ObjectWater makes the mesh, starts the load of
\* the normals texture and publishes the mesh in one run; once the published
\* api is rendered the mesh is displayed whatever the state of the load; the
\* outcome of the load changes the texture only (wrapS and wrapT become
\* RepeatWrapping exactly when it succeeds) and a failure changes no state
\* of the component
C11_WaterShownWhateverTheLoad ==
    [][/\ (waterEffect = "pending" /\ waterEffect' = "ran")
            => /\ water'.created
               /\ water'.waterNormals.status = "loading"
               /\ pendingApi' = <<[func |-> TRUE, display |-> "water"]>>
       /\ (waterEffect' = "ran" /\ pendingApi' = <<>>) => display' = "water"
       /\ water'.waterNormals # water.waterNormals /\ waterEffect = "ran"
            => /\ UNCHANGED <<api, pendingApi, waterEffect, display>>
               /\ water'.created = water.created
               /\ water.waterNormals.status = "loading"
               /\ water'.waterNormals.status = "failed"
                    => /\ water'.waterNormals.wrapS = water.waterNormals.wrapS
                       /\ water'.waterNormals.wrapT = water.waterNormals.wrapT
       /\ \A w \in {water'.waterNormals.wrapS, water'.waterNormals.wrapT} :
              w = "RepeatWrapping" <=> water'.waterNormals.status = "loaded"
      ]_vars

\* the mesh is displayed although the load of its texture failed
C11_Witness ==
    /\ display = "water"
    /\ water.waterNormals.status = "failed"
    /\ water.waterNormals.wrapS = "ClampToEdgeWrapping"

\* C12: CamRig and Fog write their target once per camera or scene object:
\* the run on a camera leaves it at the pose of the fixed matrix with fov 50,
\* near 5, far 15000, no later step runs the effect on that camera again,
\* so the projection stays and a pose given by OrbitControls afterwards is
\* kept; applying either effect body twice gives what applying it once gives
C12_ConfiguredOncePerTarget ==
    [][/\ \A id \in CameraIds :
            /\ camRigRuns'[id] <= 1
            /\ camRigRuns'[id] > camRigRuns[id]
                 => /\ id = camera
                    /\ cameras'[id].position = <<-136600, 272607, 755452>>
                    /\ cameras'[id].scale = <<999, 999, 999>>
                    /\ cameras'[id].fov = 50
                    /\ cameras'[id].near = 5
                    /\ cameras'[id].far = 15000
                    /\ cameras'[id].projection = <<50, 5, 15000>>
            /\ camRigRuns[id] = 1
                 => /\ cameras'[id].projection = <<50, 5, 15000>>
                    /\ cameras[id].position \in OrbitPositions
                         => cameras'[id].position \in OrbitPositions
            /\ CamRigConfigure(CamRigConfigure(cameras[id]))
                 = CamRigConfigure(cameras[id])
       /\ \A id \in SceneIds :
            /\ fogRuns'[id] <= 1
            /\ fogRuns'[id] > fogRuns[id]
                 => /\ id = scene
                    /\ scenes'[id].fogNode
                         = [color |-> "#6df3ff", near |-> 750, far |-> 1500]
                    /\ scenes'[id].backgroundNode = "#6df3ff"
            /\ fogRuns[id] = 1 => scenes'[id] = scenes[id]
            /\ FogConfigure(FogConfigure(scenes[id])) = FogConfigure(scenes[id])
      ]_vars

\* the second camera was configured and then moved by OrbitControls, and
\* the second scene was configured
C12_Witness ==
    /\ camera = 2
    /\ camRigRuns[2] = 1
    /\ cameras[2].position \in OrbitPositions
    /\ cameras[2].fov = 50
    /\ scene = 2
    /\ fogRuns[2] = 1

\* C13: whenever the gate is closed, in the last render or in the queued
\* setCanPlayNext, the current clip is JUMP_START or JUMP_LAND; false is
\* queued only by a run of the status effect that starts one of these two
\* clips, and the gate of the render goes from open to closed only by the
\* commit of that queued value
C13_GateClosedOnlyForOneShot ==
    [][/\ ~canPlayNext' => prevActionNameRef' \in OneShotClips
       /\ pendingCanPlayNext' = <<FALSE>>
            => prevActionNameRef' \in OneShotClips
       /\ (pendingCanPlayNext' = <<FALSE>> /\ pendingCanPlayNext # <<FALSE>>)
            => /\ EffectRuns
               /\ last'.started \in OneShotClips
               /\ last'.started = prevActionNameRef'
       /\ (canPlayNext /\ ~canPlayNext') => pendingCanPlayNext = <<FALSE>>
      ]_vars

\* the gate is closed for JUMP_LAND while the status is RUN already
C13_Witness ==
    /\ ~canPlayNext
    /\ prevActionNameRef = "JUMP_LAND"
    /\ ecctrlActionName = "RUN"
    /\ effectsPending = "none"

\* C14: prevActionNameRef is IDLE at first and names the clip started last:
\* a run of the status effect that starts a clip records it, the run on
\* mount that starts none leaves IDLE recorded and playing, and the ref
\* changes only in a run executed with the gate open that resets and plays
\* the new clip, cross-faded from the old one; frames with their 'finished'
\* events, changes of the gate and runs with the gate closed leave it alone
C14_PrevNamesLastStartedClip ==
    /\ prevActionNameRef = "IDLE"
    /\ [][/\ prevActionNameRef' # prevActionNameRef
               => /\ EffectRuns
                  /\ canPlayNext
                  /\ last'.started = prevActionNameRef'
                  /\ last'.from = prevActionNameRef
                  /\ Restarted(actions'[prevActionNameRef'])
          /\ last'.started # "none" => prevActionNameRef' = last'.started
          /\ (effectsPending = "mount" /\ EffectRuns
                /\ last'.started = "none")
               => /\ prevActionNameRef' = "IDLE"
                  /\ actions'["IDLE"].playing
          /\ \/ last'.op = "frame"
             \/ canPlayNext' # canPlayNext
             \/ pendingCanPlayNext' # pendingCanPlayNext /\ ~EffectRuns
             \/ EffectRuns /\ ~canPlayNext
               => prevActionNameRef' = prevActionNameRef
         ]_vars

\* WALK was started from JUMP_LAND and recorded
C14_Witness ==
    /\ last.op = "effect"
    /\ last.started = "WALK"
    /\ last.from = "JUMP_LAND"
    /\ prevActionNameRef = "WALK"

\* C15: every run of the status effect that calls crossFadeFrom fades from
\* the clip recorded before the run, which is one of the six clips and is
\* not the clip the run starts
C15_CrossFadeSource ==
    [][(EffectRuns /\ last'.started # "none")
          => /\ last'.from = prevActionNameRef
             /\ last'.from \in {"IDLE", "WALK", "JOG", "JUMP_START",
                                "JUMP_LOOP", "JUMP_LAND"}
             /\ last'.from # last'.started
             /\ last'.started = C1_Table[ecctrlActionName]
      ]_vars

\* JUMP_LOOP was cross-faded from JUMP_START
C15_Witness ==
    /\ last.op = "effect"
    /\ last.started = "JUMP_LOOP"
    /\ last.from = "JUMP_START"

\* the playback speed of each clip as the claim states it, in hundredths
C16_Speed ==
    [c \in clips |->
        CASE c = "IDLE" -> 100
          [] c = "WALK" -> 45
          [] c = "JOG" -> 45
          [] c = "JUMP_START" -> 100
          [] c = "JUMP_LAND" -> 88
          [] c = "JUMP_LOOP" -> 0]

\* C16: after every run of the status effect the current clip plays at the
\* speed of the table above; no action is left at the 0.5 of the one-shot
\* branch; and while the gate stays closed the current one-shot clip keeps
\* its speed of 1.0 or 0.88
C16_SpeedByClip ==
    [][/\ EffectRuns
            => actions'[prevActionNameRef'].timeScale
                 = C16_Speed[prevActionNameRef']
       /\ \A c \in clips : actions'[c].timeScale # 50
       /\ (~canPlayNext /\ ~canPlayNext')
            => /\ actions'[prevActionNameRef].timeScale
                    = actions[prevActionNameRef].timeScale
               /\ actions'[prevActionNameRef].timeScale \in {100, 88}
      ]_vars

\* the effect ran for the status RUN with the gate closed for JUMP_LAND,
\* which keeps its 0.88 while JOG got its 0.45
C16_Witness ==
    /\ last.op = "effect"
    /\ ~canPlayNext
    /\ ecctrlActionName = "RUN"
    /\ prevActionNameRef = "JUMP_LAND"
    /\ actions["JUMP_LAND"].timeScale = 88
    /\ actions["JOG"].timeScale = 45

\* C17: a run of the status effect for a status that is not a key of the
\* mapping table starts no clip and changes neither the queued gate, nor
\* the recorded clip, nor any action (on mount the IDLE clip is played by
\* the mount effect before it); a closed gate is not released by it
C17_UnmappedStatusIgnored ==
    [][(EffectRuns /\ ecctrlActionName \notin DOMAIN C1_Table)
          => /\ last'.started = "none"
             /\ last'.from = "none"
             /\ released' = "none"
             /\ UNCHANGED <<prevActionNameRef, pendingCanPlayNext,
                            canPlayNext>>
             /\ \A c \in clips :
                    (c # "IDLE" \/ effectsPending # "mount")
                        => actions'[c] = actions[c]
      ]_vars

\* the effect ran for the unmapped status with the gate closed for
\* JUMP_START, and nothing is queued
C17_Witness ==
    /\ last.op = "effect"
    /\ ecctrlActionName = "UNMAPPED"
    /\ ~canPlayNext
    /\ prevActionNameRef = "JUMP_START"
    /\ pendingCanPlayNext = <<>>

\* C18: a run of the status effect for JUMP_IDLE or JUMP_FALL while JUMP_LOOP
\* is the current clip starts nothing, leaves the gate and the recorded clip
\* alone and writes only the time scale of JUMP_LOOP, which is 0 already;
\* every run after the mount for a status whose clip is the current one
\* leaves the action of the current clip as it was
C18_SameClipNotRestarted ==
    [][/\ (EffectRuns /\ ecctrlActionName \in {"JUMP_IDLE", "JUMP_FALL"}
             /\ prevActionNameRef = "JUMP_LOOP")
            => /\ last'.started = "none"
               /\ UNCHANGED <<prevActionNameRef, pendingCanPlayNext,
                              canPlayNext>>
               /\ actions["JUMP_LOOP"].timeScale = 0
               /\ actions' = [actions EXCEPT !["JUMP_LOOP"].timeScale = 0]
       /\ (EffectRuns /\ effectsPending # "mount"
             /\ C1_Table[ecctrlActionName] = prevActionNameRef)
            => /\ last'.started = "none"
               /\ actions'[prevActionNameRef] = actions[prevActionNameRef]
               /\ prevActionNameRef' = prevActionNameRef
      ]_vars

\* the effect ran for JUMP_FALL while JUMP_LOOP, started for JUMP_IDLE, was
\* playing, and started nothing
C18_Witness ==
    /\ last.op = "effect"
    /\ last.started = "none"
    /\ ecctrlActionName = "JUMP_FALL"
    /\ prevActionNameRef = "JUMP_LOOP"
    /\ actions["JUMP_LOOP"].playing
    /\ canPlayNext

\* C19: LoopOnce and clampWhenFinished are found together, and only on the
\* actions of JUMP_START and JUMP_LAND, which get them in the run that
\* starts them; the actions of IDLE, WALK, JOG and JUMP_LOOP keep repeating,
\* and every 'finished' event comes from JUMP_START or JUMP_LAND
C19_OnlyOneShotsLoopOnce ==
    [][/\ \A c \in clips :
            /\ actions'[c].loopOnce => c \in {"JUMP_START", "JUMP_LAND"}
            /\ actions'[c].clampWhenFinished <=> actions'[c].loopOnce
            /\ (last'.started = c /\ c \in {"JUMP_START", "JUMP_LAND"})
                 => actions'[c].loopOnce /\ actions'[c].clampWhenFinished
       /\ last'.finished \subseteq {"JUMP_START", "JUMP_LAND"}
      ]_vars

\* both one-shot clips are configured, JUMP_LAND has just finished, and
\* JUMP_LOOP, played in between, still repeats
C19_Witness ==
    /\ last.finished = {"JUMP_LAND"}
    /\ actions["JUMP_START"].loopOnce
    /\ actions["JUMP_LAND"].clampWhenFinished
    /\ actions["JUMP_LOOP"].playing
    /\ ~actions["JUMP_LOOP"].loopOnce
    /\ ~actions["IDLE"].loopOnce

\* C20: from the run of the mount effects to the unmount exactly one
\* 'finished' listener is registered on the mixer; the effects of a commit
\* that changed canPlayNext replace the listener of the old gate by one of
\* the new gate; before the mount effects and after the unmount there is
\* none
C20_OneFinishedListener ==
    [][/\ (AvatarMounted' /\ effectsPending' # "mount")
            => Len(listeners') = 1
       /\ (~AvatarMounted' \/ effectsPending' = "mount")
            => listeners' = <<>>
       /\ (EffectRuns /\ effectsPending = "gate")
            => /\ listeners = <<~canPlayNext>>
               /\ listeners' = <<canPlayNext>>
       /\ (AvatarMounted /\ ~AvatarMounted') => listeners' = <<>>
      ]_vars

\* the avatar was unmounted while its gate was closed for JUMP_LAND; no
\* listener is left
C20_Witness ==
    /\ ~AvatarMounted
    /\ loaded = Assets
    /\ ~canPlayNext
    /\ prevActionNameRef = "JUMP_LAND"
    /\ listeners = <<>>
====
